---- MODULE Spec2Model ----
(***************************************************************************)
(* A model of the "roll" release-engineering tool: configuration loading,  *)
(* the forge client, the repository classifier, the clone/branch operator, *)
(* the batch driver and the discovery/export mode.                         *)
(*                                                                         *)
(* Go strings are modelled as sequences of tokens (<<"group","/","app">>   *)
(* is "group/app"), so that path and URL functions are computed on their   *)
(* parts the way the code computes them on characters.                     *)
(***************************************************************************)
EXTENDS Integers, Sequences, FiniteSets, TLC

VARIABLES
  rollerYaml,    \* the document in roller.yaml, or NoFile
  envToken,      \* GITLAB_TOKEN
  discoverFlag,  \* the -discover flag
  apiResp,       \* what the forge answers to the project listing request
  pc,            \* position of main
  cfg,           \* the loaded configuration
  fatal,         \* the parts of the log.Fatal message that ended the run, <<>> while none has
  autoProjects,  \* result of FetchGroupProjects in the batch run
  allProjects,   \* merged list (batch) or discovered list (discovery)
  idx,           \* 1-based position of the range loop
  ctx,           \* per-repository context: "none", "live", "expired"
  ret,           \* value cloneAndCreateBranch is returning ("" is nil)
  dirs,          \* directories that exist under the working directory
  tree,          \* working tree of the clone being classified
  detected,      \* last result of detectRepoType
  opCalls,       \* repoPath of every cloneAndCreateBranch invocation, in order
  execs,         \* every external process run, in order
  logs,          \* every log line, in order
  outFile,       \* the document written to the -output path, or NoFile
  rtList,        \* round trip: the list handed to ExportDiscoveredProjects
  rtFile,        \* round trip: the file it wrote
  rtLoaded,      \* round trip: what LoadConfig made of the file
  rtPc           \* round trip: position

vars == <<rollerYaml, envToken, discoverFlag, apiResp, pc, cfg, fatal,
          autoProjects, allProjects, idx, ctx, ret, dirs, tree, detected,
          opCalls, execs, logs, outFile, rtList, rtFile, rtLoaded, rtPc>>

mainVars == <<rollerYaml, envToken, discoverFlag, apiResp, pc, cfg, fatal,
              autoProjects, allProjects, idx, ctx, ret, dirs,
              opCalls, execs, logs, outFile>>

rtVars == <<rtList, rtFile, rtLoaded, rtPc>>

----------------------------------------------------------------------------
(* Bounds of the model *)

MaxStatic == 1     \* longest projects list in roller.yaml
MaxProjects == 2   \* longest project listing the forge answers with
MaxFiles == 2      \* most entries in a classified tree
MaxExport == 2     \* longest list in the export round trip

NoFile == [absent |-> TRUE]
Null == [null |-> TRUE]

----------------------------------------------------------------------------
(* Strings *)

RECURSIVE Squeeze(_)
Squeeze(s) ==
  IF Len(s) <= 1 THEN s
  ELSE IF s[1] = "/" /\ s[2] = "/" THEN Squeeze(Tail(s))
  ELSE <<s[1]>> \o Squeeze(Tail(s))

\* path.Clean on inputs without "." and ".." elements
pathClean(s) ==
  LET q == Squeeze(s) IN
    IF q = <<>> THEN <<".">>
    ELSE IF Len(q) > 1 /\ q[Len(q)] = "/" THEN SubSeq(q, 1, Len(q) - 1)
    ELSE q

\* path.Join(a, b): empty elements are ignored, the result is cleaned
pathJoin(a, b) ==
  IF a = <<>> /\ b = <<>> THEN <<>>
  ELSE IF a = <<>> THEN pathClean(b)
  ELSE IF b = <<>> THEN pathClean(a)
  ELSE pathClean(a \o <<"/">> \o b)

RECURSIVE StripSlashes(_)
StripSlashes(s) ==
  IF Len(s) > 0 /\ s[Len(s)] = "/" THEN StripSlashes(SubSeq(s, 1, Len(s) - 1))
  ELSE s

\* path.Base(p): the last element of the path
pathBase(p) ==
  IF p = <<>> THEN <<".">>
  ELSE LET q == StripSlashes(p) IN
         IF q = <<>> THEN <<"/">> ELSE <<q[Len(q)]>>

\* filepath.Join("repos", name) and filepath.Join(tempDir, name)
filepathJoin(a, b) == pathJoin(a, b)

HasPrefix(s, p) == Len(s) >= Len(p) /\ SubSeq(s, 1, Len(p)) = p

----------------------------------------------------------------------------
(* net/url as cloneAndCreateBranch uses it *)

BadEscape == "%zz"

\* url.Parse(raw)
urlParse(raw) ==
  IF \E i \in 1..Len(raw) : raw[i] = BadEscape
  THEN [err |-> TRUE, Scheme |-> "", User |-> <<>>, Host |-> "", Path |-> <<>>]
  ELSE IF Len(raw) >= 2 /\ raw[2] = "://"
  THEN LET rest == SubSeq(raw, 3, Len(raw))
           hasHost == rest # <<>> /\ rest[1] # "/"
       IN [err |-> FALSE, Scheme |-> raw[1], User |-> <<>>,
           Host |-> IF hasHost THEN rest[1] ELSE "",
           Path |-> IF hasHost THEN Tail(rest) ELSE rest]
  ELSE [err |-> FALSE, Scheme |-> "", User |-> <<>>, Host |-> "", Path |-> raw]

\* url.UserPassword(username, password)
urlUserPassword(username, password) == <<username, ":">> \o password

\* (*URL).String()
urlString(u) ==
  (IF u.Scheme # "" THEN <<u.Scheme>> ELSE <<>>)
  \o (IF u.Scheme # "" \/ u.Host # "" \/ u.User # <<>>
      THEN (IF u.Host # "" \/ u.Path # <<>> \/ u.User # <<>>
            THEN (IF u.Scheme # "" THEN <<"://">> ELSE <<"//">>)
            ELSE (IF u.Scheme # "" THEN <<":">> ELSE <<>>))
           \o (IF u.User # <<>> THEN u.User \o <<"@">> ELSE <<>>)
           \o (IF u.Host # "" THEN <<u.Host>> ELSE <<>>)
      ELSE <<>>)
  \o (IF u.Path # <<>> /\ u.Path[1] # "/" /\ u.Host # "" THEN <<"/">> ELSE <<>>)
  \o u.Path

----------------------------------------------------------------------------
(* gopkg.in/yaml.v3 as the config package uses it.  A document is a function *)
(* from the keys it has to their values; a scalar is its text and whether   *)
(* it is written in quotes.                                                 *)

Garbage == [garbage |-> TRUE]

\* plain scalars that do not resolve to a string
NullLooking == {<<>>, <<"null">>, <<"~">>}
BoolLooking == {<<"true">>, <<"false">>}

\* the encoder quotes a string that would otherwise resolve to another type
yamlEncode(s) == [quoted |-> s \in NullLooking \cup BoolLooking, text |-> s]

\* decoding a scalar into a string field: a null leaves the zero value
yamlDecode(e) == IF ~e.quoted /\ e.text \in NullLooking THEN <<>> ELSE e.text

yamlField(doc, key) == IF key \in DOMAIN doc THEN yamlDecode(doc[key]) ELSE <<>>

\* yamlMarshalProjects, had the yaml tags of RepoPath and RoleName been swapped
yamlMarshalProjectsSwapped(projects) ==
  [k \in {"projects"} |->
     [i \in 1..Len(projects) |->
        [path |-> yamlEncode(projects[i].RoleName),
         role |-> yamlEncode(projects[i].RepoPath)]]]

\* yaml.Marshal of struct{ Projects []RepoSpec `yaml:"projects"` }
yamlMarshalProjects(projects) ==
  [k \in {"projects"} |->
     [i \in 1..Len(projects) |->
        [path |-> yamlEncode(projects[i].RepoPath),
         role |-> yamlEncode(projects[i].RoleName)]]]

\* yaml.Unmarshal into Config: absent keys leave zero values
yamlUnmarshalConfig(doc) ==
  [GitlabURL     |-> yamlField(doc, "gitlab_url"),
   FeatureBranch |-> yamlField(doc, "feature_branch"),
   TargetBranch  |-> yamlField(doc, "target_branch"),
   Projects      |-> IF "projects" \in DOMAIN doc
                     THEN [i \in 1..Len(doc["projects"]) |->
                             [RepoPath |-> yamlField(doc["projects"][i], "path"),
                              RoleName |-> yamlField(doc["projects"][i], "role")]]
                     ELSE <<>>,
   AutoDiscover  |-> [Group |-> yamlField(doc, "auto_discover.group")]]

----------------------------------------------------------------------------
(* package config *)

RepoSpec(p, r) == [RepoPath |-> p, RoleName |-> r]

HttpPrefix == <<"http", "://">>
HttpsPrefix == <<"https", "://">>

\* (*Config).Validate: the validation errors, <<>> when valid
Validate(c) ==
  (IF c.GitlabURL = <<>> THEN <<"gitlab_url is required">>
   ELSE IF ~HasPrefix(c.GitlabURL, HttpPrefix) /\ ~HasPrefix(c.GitlabURL, HttpsPrefix)
        THEN <<"gitlab_url must start with http:// or https://">>
        ELSE <<>>)
  \o (IF c.FeatureBranch = <<>> THEN <<"feature_branch is required">> ELSE <<>>)
  \o (IF c.TargetBranch = <<>> THEN <<"target_branch is required">> ELSE <<>>)
  \o (IF c.AutoDiscover.Group = <<>> THEN <<"auto_discover.group is required">> ELSE <<>>)

\* LoadConfig(path), given what the file at path holds
LoadConfig(file) ==
  IF file = NoFile
  THEN [err |-> "failed to read config file", errs |-> <<>>, cfg |-> Null]
  ELSE IF file = Garbage
  THEN [err |-> "failed to parse config file", errs |-> <<>>, cfg |-> Null]
  ELSE LET c == yamlUnmarshalConfig(file)
           v == Validate(c)
       IN IF v # <<>>
          THEN [err |-> "invalid configuration", errs |-> v, cfg |-> Null]
          ELSE [err |-> "", errs |-> <<>>, cfg |-> c]

\* ExportDiscoveredProjects(path, projects); writeOK is whether os.WriteFile
\* succeeds.  file is what the path holds afterwards (NoFile: nothing written).
ExportDiscoveredProjects(projects, writeOK) ==
  IF Len(projects) = 0
  THEN [err |-> "no projects to export", file |-> NoFile]
  ELSE IF ~writeOK
  THEN [err |-> "failed to write projects file", file |-> NoFile]
  ELSE [err |-> "", file |-> yamlMarshalProjects(projects)]

----------------------------------------------------------------------------
(* package gitlab *)

\* filterRepos, had the archived check been left out
RECURSIVE filterReposKeepArchived(_)
filterReposKeepArchived(projects) ==
  IF projects = <<>> THEN <<>>
  ELSE <<RepoSpec(projects[1].path_with_namespace, <<>>)>>
       \o filterReposKeepArchived(Tail(projects))

\* the loop of FetchGroupProjects over the decoded projects
RECURSIVE filterRepos(_)
filterRepos(projects) ==
  IF projects = <<>> THEN <<>>
  ELSE (IF projects[1].archived THEN <<>>
        ELSE <<RepoSpec(projects[1].path_with_namespace, <<>>)>>)
       \o filterRepos(Tail(projects))

\* FetchGroupProjects(ctx, client, group), given the client's base URL and
\* what the forge answers
FetchGroupProjects(baseURL, resp) ==
  IF urlParse(baseURL).err THEN [err |-> "failed to create request", repos |-> <<>>]
  ELSE IF ~resp.transportOK THEN [err |-> "failed to execute request", repos |-> <<>>]
  ELSE IF resp.status # 200 THEN [err |-> "GitLab API error", repos |-> <<>>]
  ELSE IF ~resp.decodable THEN [err |-> "json decode", repos |-> <<>>]
  ELSE [err |-> "", repos |-> filterRepos(resp.body)]

----------------------------------------------------------------------------
(* detectRepoType.  A tree is the set of its entries below the root: the   *)
(* directories on the way to the entry, its name, and whether it is a      *)
(* directory itself.                                                        *)

GitDir == ".git"

\* filepath.Walk reaches an entry unless one of its directories was skipped
Walked(e) == \A i \in 1..Len(e.dir) : e.dir[i] # GitDir

dependencyFiles(t) ==
  [n \in {"pom.xml", "requirements.txt", "package.json"} |->
     \E e \in t : Walked(e) /\ ~e.isDir /\ e.name = n]

\* detectRepoType, had the switch tested package.json before pom.xml
detectRepoTypeNodeFirst(t, walkErr) ==
  IF walkErr THEN [role |-> <<>>, err |-> "error scanning repository"]
  ELSE IF dependencyFiles(t)["package.json"] THEN [role |-> <<"node">>, err |-> ""]
  ELSE IF dependencyFiles(t)["pom.xml"] THEN [role |-> <<"pom">>, err |-> ""]
  ELSE IF dependencyFiles(t)["requirements.txt"] THEN [role |-> <<"pip">>, err |-> ""]
  ELSE [role |-> <<>>, err |-> "no supported package manager found"]

\* detectRepoType(repoPath), given the tree at repoPath and whether the walk fails
detectRepoType(t, walkErr) ==
  IF walkErr THEN [role |-> <<>>, err |-> "error scanning repository"]
  ELSE IF dependencyFiles(t)["pom.xml"] THEN [role |-> <<"pom">>, err |-> ""]
  ELSE IF dependencyFiles(t)["requirements.txt"] THEN [role |-> <<"pip">>, err |-> ""]
  ELSE IF dependencyFiles(t)["package.json"] THEN [role |-> <<"node">>, err |-> ""]
  ELSE [role |-> <<>>, err |-> "no supported package manager found"]

----------------------------------------------------------------------------
(* Inputs of a run *)

SeqsUpTo(S, n) == UNION {[1..k -> S] : k \in 0..n}

TargetBranch == <<"main">>
FeatureBranch == <<"feature", "/", "roll">>
Group == <<"grp">>

GitlabURLs ==
  { <<>>,
    <<"git.example.com">>,
    <<"https", "://", "git.example.com">>,
    <<"http", "://", "git.example.com", "/", "gitlab", "/">>,
    <<"https", "://", "git.example.com", "/", BadEscape>> }

Tokens == { <<>>, <<"abc123">> }

StaticPaths == { <<"tools", "/", "cli">> }
ForgePaths == { <<"group", "/", "sub", "/", "app">>, <<"infra", "/", "api">> }

\* a roller.yaml with the keys that have a value
ConfigDoc(url, projects, group) ==
  [k \in (IF url # <<>> THEN {"gitlab_url"} ELSE {})
         \cup {"feature_branch", "target_branch"}
         \cup (IF projects # <<>> THEN {"projects"} ELSE {})
         \cup (IF group # <<>> THEN {"auto_discover.group"} ELSE {}) |->
     CASE k = "gitlab_url" -> yamlEncode(url)
       [] k = "feature_branch" -> yamlEncode(FeatureBranch)
       [] k = "target_branch" -> yamlEncode(TargetBranch)
       [] k = "projects" ->
            [i \in 1..Len(projects) |->
               [f \in {"path"} |-> yamlEncode(projects[i])]]
       [] k = "auto_discover.group" -> yamlEncode(group)]

ConfigFiles ==
  {NoFile, Garbage}
  \cup { ConfigDoc(u, ps, g) :
           u \in GitlabURLs, ps \in SeqsUpTo(StaticPaths, MaxStatic), g \in {<<>>, Group} }

ForgeProjects == [path_with_namespace : ForgePaths, archived : BOOLEAN]

Responses ==
  { [transportOK |-> FALSE, status |-> 0, decodable |-> FALSE, body |-> <<>>],
    [transportOK |-> TRUE, status |-> 500, decodable |-> FALSE, body |-> <<>>],
    [transportOK |-> TRUE, status |-> 200, decodable |-> FALSE, body |-> <<>>] }
  \cup { [transportOK |-> TRUE, status |-> 200, decodable |-> TRUE, body |-> b] :
           b \in SeqsUpTo(ForgeProjects, MaxProjects) }

Entry(d, n, isDir) == [dir |-> d, name |-> n, isDir |-> isDir]

\* the trees a clone may bring
RepoTrees ==
  { {},
    {Entry(<<>>, "pom.xml", FALSE), Entry(<<"web">>, "package.json", FALSE)},
    {Entry(<<"svc">>, "requirements.txt", FALSE)},
    {Entry(<<>>, "package.json", FALSE)},
    {Entry(<<GitDir>>, "pom.xml", FALSE)} }

----------------------------------------------------------------------------
(* State before main runs *)

IdleRoundTrip ==
  /\ rtList = <<>>
  /\ rtFile = NoFile
  /\ rtLoaded = Null
  /\ rtPc = "idle"

FreshProcess ==
  /\ cfg = Null
  /\ fatal = <<>>
  /\ autoProjects = <<>>
  /\ allProjects = <<>>
  /\ idx = 0
  /\ ctx = "none"
  /\ ret = ""
  /\ dirs = {}
  /\ opCalls = <<>>
  /\ execs = <<>>
  /\ logs = <<>>
  /\ outFile = NoFile

Init ==
  /\ rollerYaml \in ConfigFiles
  /\ envToken \in Tokens
  /\ discoverFlag \in BOOLEAN
  /\ apiResp \in Responses
  /\ pc = "start"
  /\ FreshProcess
  /\ tree = {}
  /\ detected = Null
  /\ IdleRoundTrip

----------------------------------------------------------------------------
(* main: start-up *)

Line(m, repo) == [msg |-> m, repo |-> repo]
Exec(c, repo, url, dest) == [cmd |-> c, repo |-> repo, url |-> url, dest |-> dest]

ReposDir == <<"repos">>
TempDir == filepathJoin(ReposDir, <<"temp">>)

\* log.Fatal: the process exits at once
Die(m) ==
  /\ pc' = "fatal"
  /\ fatal' = m

\* main up to the mode switch: LoadConfig, the required fields, the token
Startup ==
  /\ pc = "start"
  /\ LET r == LoadConfig(rollerYaml) IN
       IF r.err # "" THEN Die(<<"Error loading config", r.err>>) /\ cfg' = cfg
       ELSE IF r.cfg.GitlabURL = <<>>
            THEN Die(<<"config: gitlab_url is required">>) /\ cfg' = r.cfg
       ELSE IF r.cfg.TargetBranch = <<>>
            THEN Die(<<"config: target_branch is required">>) /\ cfg' = r.cfg
       ELSE IF r.cfg.FeatureBranch = <<>>
            THEN Die(<<"config: feature_branch is required">>) /\ cfg' = r.cfg
       ELSE IF envToken = <<>>
            THEN Die(<<"GITLAB_TOKEN environment variable is required">>) /\ cfg' = r.cfg
       ELSE IF discoverFlag
            THEN IF r.cfg.AutoDiscover.Group = <<>>
                 THEN Die(<<"auto_discover.group must be specified">>) /\ cfg' = r.cfg
                 ELSE pc' = "d_fetch" /\ cfg' = r.cfg /\ fatal' = fatal
       ELSE pc' = "fetch" /\ cfg' = r.cfg /\ fatal' = fatal
  /\ UNCHANGED <<rollerYaml, envToken, discoverFlag, apiResp, autoProjects,
                 allProjects, idx, ctx, ret, dirs, tree, detected, opCalls,
                 execs, logs, outFile, rtVars>>

----------------------------------------------------------------------------
(* main: the batch run *)

\* FetchAuto, had a failed fetch been tolerated and the static list used alone
FetchAutoTolerant ==
  /\ pc = "fetch"
  /\ pc' = "merge"
  /\ autoProjects' = IF cfg.AutoDiscover.Group # <<>>
                     THEN FetchGroupProjects(cfg.GitlabURL, apiResp).repos
                     ELSE <<>>
  /\ UNCHANGED <<rollerYaml, envToken, discoverFlag, apiResp, cfg, fatal,
                 allProjects, idx, ctx, ret, dirs, tree, detected, opCalls,
                 execs, logs, outFile, rtVars>>

\* step 5: fetch the auto-discovered projects, if a group is configured
FetchAuto ==
  /\ pc = "fetch"
  /\ IF cfg.AutoDiscover.Group # <<>>
     THEN LET r == FetchGroupProjects(cfg.GitlabURL, apiResp) IN
            IF r.err # ""
            THEN Die(<<"Failed to fetch projects from group", r.err>>) /\ autoProjects' = autoProjects
            ELSE pc' = "merge" /\ autoProjects' = r.repos /\ fatal' = fatal
     ELSE pc' = "merge" /\ autoProjects' = <<>> /\ fatal' = fatal
  /\ UNCHANGED <<rollerYaml, envToken, discoverFlag, apiResp, cfg, allProjects,
                 idx, ctx, ret, dirs, tree, detected, opCalls, execs, logs,
                 outFile, rtVars>>

\* step 6: static projects first, then the discovered ones
Merge ==
  /\ pc = "merge"
  /\ allProjects' = cfg.Projects \o autoProjects
  /\ IF Len(allProjects') = 0
     THEN Die(<<"No projects to process">>)
     ELSE pc' = "mkdir" /\ fatal' = fatal
  /\ UNCHANGED <<rollerYaml, envToken, discoverFlag, apiResp, cfg, autoProjects,
                 idx, ctx, ret, dirs, tree, detected, opCalls, execs, logs,
                 outFile, rtVars>>

\* step 7: os.MkdirAll("repos")
MkdirRepos ==
  /\ pc = "mkdir"
  /\ \E ok \in BOOLEAN :
       IF ok
       THEN /\ dirs' = dirs \cup {ReposDir}
            /\ idx' = 1
            /\ pc' = "loop"
            /\ fatal' = fatal
       ELSE /\ Die(<<"Failed to create directory">>)
            /\ UNCHANGED <<dirs, idx>>
  /\ UNCHANGED <<rollerYaml, envToken, discoverFlag, apiResp, cfg, autoProjects,
                 allProjects, ctx, ret, tree, detected, opCalls, execs, logs,
                 outFile, rtVars>>

\* the clone URL cloneAndCreateBranch computes
cloneURLOf(parsed, token, repoPath) ==
  urlString([Scheme |-> IF parsed.Scheme = "" THEN "https" ELSE parsed.Scheme,
             User |-> urlUserPassword("oauth2", token),
             Host |-> parsed.Host,
             Path |-> pathJoin(parsed.Path, repoPath) \o <<".git">>])

destDirOf(root, repoPath) == filepathJoin(root, pathBase(repoPath))

\* step 8, loop head: a fresh context, then cloneAndCreateBranch up to the
\* point where git clone is started
BeginRepo ==
  /\ pc = "loop"
  /\ IF idx > Len(allProjects)
     THEN /\ pc' = "done"
          /\ UNCHANGED <<ctx, ret, opCalls>>
     ELSE /\ opCalls' = Append(opCalls, allProjects[idx].RepoPath)
          /\ ctx' = "live"
          /\ IF urlParse(cfg.GitlabURL).err
             THEN ret' = "invalid GitLab URL" /\ pc' = "return"
             ELSE ret' = "" /\ pc' = "clone"
  /\ UNCHANGED <<rollerYaml, envToken, discoverFlag, apiResp, cfg, fatal,
                 autoProjects, allProjects, idx, dirs, tree, detected, execs,
                 logs, outFile, rtVars>>

\* the two-minute timeout of the repository in progress expires
Expire ==
  /\ pc \in {"clone", "checkout", "detect", "ansible"}
  /\ ctx = "live"
  /\ ctx' = "expired"
  /\ UNCHANGED <<rollerYaml, envToken, discoverFlag, apiResp, pc, cfg, fatal,
                 autoProjects, allProjects, idx, ret, dirs, tree, detected,
                 opCalls, execs, logs, outFile, rtVars>>

\* git clone --depth 1 --branch target url dest; it cannot succeed once the
\* context has expired, nor into a directory that exists
Clone ==
  /\ pc = "clone"
  /\ LET repoPath == allProjects[idx].RepoPath
         url == cloneURLOf(urlParse(cfg.GitlabURL), envToken, repoPath)
         dest == destDirOf(ReposDir, repoPath)
     IN /\ execs' = Append(execs, Exec("git clone", repoPath, url, dest))
        /\ \E ok \in BOOLEAN, t \in RepoTrees :
             IF ok /\ ctx = "live" /\ dest \notin dirs
             THEN /\ dirs' = dirs \cup {dest}
                  /\ tree' = t
                  /\ pc' = "checkout"
                  /\ ret' = ret
             ELSE /\ ret' = "git clone failed"
                  /\ pc' = "return"
                  /\ UNCHANGED <<dirs, tree>>
  /\ UNCHANGED <<rollerYaml, envToken, discoverFlag, apiResp, cfg, fatal,
                 autoProjects, allProjects, idx, ctx, detected, opCalls, logs,
                 outFile, rtVars>>

\* Checkout, had its error been noted but the function gone on to classify
CheckoutGoesOn ==
  /\ pc = "checkout"
  /\ LET repoPath == allProjects[idx].RepoPath
     IN execs' = Append(execs, Exec("git checkout", repoPath, <<>>,
                                     destDirOf(ReposDir, repoPath)))
  /\ \E ok \in BOOLEAN :
       IF ok /\ ctx = "live"
       THEN pc' = "detect" /\ ret' = ret
       ELSE ret' = "git checkout -b failed" /\ pc' = "detect"
  /\ UNCHANGED <<rollerYaml, envToken, discoverFlag, apiResp, cfg, fatal,
                 autoProjects, allProjects, idx, ctx, dirs, tree, detected,
                 opCalls, logs, outFile, rtVars>>

\* git checkout -b feature, run in the clone
Checkout ==
  /\ pc = "checkout"
  /\ LET repoPath == allProjects[idx].RepoPath
     IN execs' = Append(execs, Exec("git checkout", repoPath, <<>>,
                                     destDirOf(ReposDir, repoPath)))
  /\ \E ok \in BOOLEAN :
       IF ok /\ ctx = "live"
       THEN pc' = "detect" /\ ret' = ret
       ELSE ret' = "git checkout -b failed" /\ pc' = "return"
  /\ UNCHANGED <<rollerYaml, envToken, discoverFlag, apiResp, cfg, fatal,
                 autoProjects, allProjects, idx, ctx, dirs, tree, detected,
                 opCalls, logs, outFile, rtVars>>

\* detectRepoType on the clone; its error is logged as a warning only
Detect ==
  /\ pc = "detect"
  /\ \E walkErr \in BOOLEAN :
       LET r == detectRepoType(tree, walkErr)
           repoPath == allProjects[idx].RepoPath
       IN /\ detected' = r
          /\ logs' = logs
                \o <<IF r.err # ""
                     THEN Line("Warning: Could not detect repository type", repoPath)
                     ELSE Line("Repository type", repoPath)>>
                \o <<Line("Successfully prepared", repoPath)>>
  /\ pc' = "ansible"
  /\ UNCHANGED <<rollerYaml, envToken, discoverFlag, apiResp, cfg, fatal,
                 autoProjects, allProjects, idx, ctx, ret, dirs, tree, opCalls,
                 execs, outFile, rtVars>>

\* ansible-playbook ansible/site.yml; its failure is logged as a warning
\* only, and cloneAndCreateBranch returns nil
Ansible ==
  /\ pc = "ansible"
  /\ execs' = Append(execs, Exec("ansible-playbook", allProjects[idx].RepoPath,
                                <<>>, <<".">>))
  /\ \E ok \in BOOLEAN :
       LET repoPath == allProjects[idx].RepoPath IN
         logs' = Append(logs,
                   IF ok /\ ctx = "live"
                   THEN Line("Successfully ran Ansible playbook", repoPath)
                   ELSE Line("Warning: Ansible playbook execution failed", repoPath))
  /\ ret' = ""
  /\ pc' = "return"
  /\ UNCHANGED <<rollerYaml, envToken, discoverFlag, apiResp, cfg, fatal,
                 autoProjects, allProjects, idx, ctx, dirs, tree, detected,
                 opCalls, outFile, rtVars>>

\* EndRepo, had the loop stopped at the first error instead of continuing
EndRepoStopOnError ==
  /\ pc = "return"
  /\ ctx' = "none"
  /\ logs' = IF ret # ""
             THEN Append(logs, Line("Error processing", allProjects[idx].RepoPath))
             ELSE logs
  /\ ret' = ""
  /\ idx' = idx + 1
  /\ pc' = IF ret # "" THEN "done" ELSE "loop"
  /\ UNCHANGED <<rollerYaml, envToken, discoverFlag, apiResp, cfg, fatal,
                 autoProjects, allProjects, dirs, tree, detected, opCalls,
                 execs, outFile, rtVars>>

\* back in the loop: cancel(), log the error if there is one, next project
EndRepo ==
  /\ pc = "return"
  /\ ctx' = "none"
  /\ logs' = IF ret # ""
             THEN Append(logs, Line("Error processing", allProjects[idx].RepoPath))
             ELSE logs
  /\ ret' = ""
  /\ idx' = idx + 1
  /\ pc' = "loop"
  /\ UNCHANGED <<rollerYaml, envToken, discoverFlag, apiResp, cfg, fatal,
                 autoProjects, allProjects, dirs, tree, detected, opCalls,
                 execs, outFile, rtVars>>

----------------------------------------------------------------------------
(* main: discovery mode, discoverAndExportProjects *)

\* fmt.Sprintf("%s/%s.git", client.BaseURL(), proj.RepoPath)
discoverCloneURL(baseURL, repoPath) == baseURL \o <<"/">> \o repoPath \o <<".git">>

\* os.RemoveAll(root) on the set of existing directories
RemoveAll(ds, root) == {d \in ds : ~HasPrefix(d, root)}

DiscFetch ==
  /\ pc = "d_fetch"
  /\ LET r == FetchGroupProjects(cfg.GitlabURL, apiResp) IN
       IF r.err # ""
       THEN Die(<<"Discovery failed", "failed to fetch projects", r.err>>) /\ allProjects' = allProjects
       ELSE pc' = "d_mktemp" /\ allProjects' = r.repos /\ fatal' = fatal
  /\ UNCHANGED <<rollerYaml, envToken, discoverFlag, apiResp, cfg, autoProjects,
                 idx, ctx, ret, dirs, tree, detected, opCalls, execs, logs,
                 outFile, rtVars>>

\* os.MkdirAll("repos/temp"); the removal is deferred only when it succeeds
DiscMkTemp ==
  /\ pc = "d_mktemp"
  /\ \E ok \in BOOLEAN :
       IF ok
       THEN /\ dirs' = dirs \cup {ReposDir, TempDir}
            /\ idx' = 1
            /\ pc' = "d_clone"
            /\ fatal' = fatal
       ELSE /\ Die(<<"Discovery failed", "failed to create temp directory">>)
            /\ UNCHANGED <<dirs, idx>>
  /\ UNCHANGED <<rollerYaml, envToken, discoverFlag, apiResp, cfg, autoProjects,
                 allProjects, ctx, ret, tree, detected, opCalls, execs, logs,
                 outFile, rtVars>>

\* git clone --depth 1 url dest of the next project; a failure is logged and
\* the loop continues with the project left as fetched
DiscClone ==
  /\ pc = "d_clone"
  /\ idx <= Len(allProjects)
  /\ LET repoPath == allProjects[idx].RepoPath
         url == discoverCloneURL(cfg.GitlabURL, repoPath)
         dest == destDirOf(TempDir, repoPath)
     IN /\ execs' = Append(execs, Exec("git clone", repoPath, url, dest))
        /\ \E ok \in BOOLEAN, t \in RepoTrees :
             IF ok /\ dest \notin dirs
             THEN /\ dirs' = dirs \cup {dest}
                  /\ tree' = t
                  /\ pc' = "d_detect"
                  /\ UNCHANGED <<idx, logs>>
             ELSE /\ logs' = Append(logs, Line("Warning: Failed to clone", repoPath))
                  /\ idx' = idx + 1
                  /\ UNCHANGED <<dirs, tree, pc>>
  /\ UNCHANGED <<rollerYaml, envToken, discoverFlag, apiResp, cfg, fatal,
                 autoProjects, allProjects, ctx, ret, detected, opCalls,
                 outFile, rtVars>>

\* detectRepoType on the scratch clone; on success the role is recorded on
\* the project, on failure the loop continues with the project left as fetched
DiscDetect ==
  /\ pc = "d_detect"
  /\ \E walkErr \in BOOLEAN :
       LET r == detectRepoType(tree, walkErr)
           repoPath == allProjects[idx].RepoPath
       IN /\ detected' = r
          /\ IF r.err # ""
             THEN /\ logs' = Append(logs, Line("Warning: Could not detect role", repoPath))
                  /\ allProjects' = allProjects
             ELSE /\ logs' = Append(logs, Line("Detected role", repoPath))
                  /\ allProjects' = [allProjects EXCEPT ![idx].RoleName = r.role]
  /\ idx' = idx + 1
  /\ pc' = "d_clone"
  /\ UNCHANGED <<rollerYaml, envToken, discoverFlag, apiResp, cfg, fatal,
                 autoProjects, ctx, ret, dirs, tree, opCalls, execs, outFile,
                 rtVars>>

\* DiscExport, had the removal been a plain call after the export (not
\* deferred), which an error return skips
DiscExportCleansOnSuccess ==
  /\ pc = "d_clone"
  /\ idx > Len(allProjects)
  /\ \E writeOK \in BOOLEAN :
       LET r == ExportDiscoveredProjects(allProjects, writeOK) IN
         /\ outFile' = IF r.file # NoFile THEN r.file ELSE outFile
         /\ IF r.err # ""
            THEN /\ Die(<<"Discovery failed", "failed to export projects", r.err>>)
                 /\ logs' = logs
                 /\ dirs' = dirs
            ELSE /\ logs' = Append(logs, Line("Successfully exported", <<>>))
                 /\ pc' = "done"
                 /\ fatal' = fatal
                 /\ dirs' = RemoveAll(dirs, TempDir)
  /\ UNCHANGED <<rollerYaml, envToken, discoverFlag, apiResp, cfg, autoProjects,
                 allProjects, idx, ctx, ret, tree, detected, opCalls, execs,
                 rtVars>>

\* after the loop: export, then the deferred removal of the scratch directory
DiscExport ==
  /\ pc = "d_clone"
  /\ idx > Len(allProjects)
  /\ \E writeOK \in BOOLEAN :
       LET r == ExportDiscoveredProjects(allProjects, writeOK) IN
         /\ outFile' = IF r.file # NoFile THEN r.file ELSE outFile
         /\ IF r.err # ""
            THEN Die(<<"Discovery failed", "failed to export projects", r.err>>) /\ logs' = logs
            ELSE /\ logs' = Append(logs, Line("Successfully exported", <<>>))
                 /\ pc' = "done"
                 /\ fatal' = fatal
  /\ dirs' = RemoveAll(dirs, TempDir)
  /\ UNCHANGED <<rollerYaml, envToken, discoverFlag, apiResp, cfg, autoProjects,
                 allProjects, idx, ctx, ret, tree, detected, opCalls, execs,
                 rtVars>>

----------------------------------------------------------------------------

Next ==
  \/ Startup
  \/ FetchAuto
  \/ Merge
  \/ MkdirRepos
  \/ BeginRepo
  \/ Expire
  \/ Clone
  \/ Checkout
  \/ Detect
  \/ Ansible
  \/ EndRepo
  \/ DiscFetch
  \/ DiscMkTemp
  \/ DiscClone
  \/ DiscDetect
  \/ DiscExport

Spec == Init /\ [][Next]_vars

----------------------------------------------------------------------------
(* The classifier on its own: detectRepoType applied to every small tree *)

TreeFiles == {"pom.xml", "requirements.txt", "package.json", "README.md"}
TreeDirs == { <<>>, <<"src">>, <<GitDir>>, <<"src", GitDir>> }
Entries == {Entry(d, n, b) : d \in TreeDirs, n \in TreeFiles, b \in BOOLEAN}

\* one name in one directory is either a file or a directory
Consistent(t) ==
  \A e1 \in t, e2 \in t : (e1.dir = e2.dir /\ e1.name = e2.name) => e1 = e2

RECURSIVE TreesUpTo(_)
TreesUpTo(n) ==
  IF n = 0 THEN {{}}
  ELSE LET smaller == TreesUpTo(n - 1) IN
         smaller \cup {t \cup {e} : t \in smaller, e \in Entries}

Trees == {t \in TreesUpTo(MaxFiles) : Consistent(t)}

IdleMain ==
  /\ rollerYaml = NoFile
  /\ envToken = <<>>
  /\ discoverFlag = FALSE
  /\ apiResp = [transportOK |-> FALSE, status |-> 0, decodable |-> FALSE, body |-> <<>>]
  /\ FreshProcess

InitClassify ==
  /\ IdleMain
  /\ IdleRoundTrip
  /\ pc = "classify"
  /\ tree \in Trees
  /\ detected = Null

ClassifyTree ==
  /\ pc = "classify"
  /\ \E walkErr \in BOOLEAN : detected' = detectRepoType(tree, walkErr)
  /\ pc' = "classified"
  /\ UNCHANGED <<rollerYaml, envToken, discoverFlag, apiResp, cfg, fatal,
                 autoProjects, allProjects, idx, ctx, ret, dirs, tree, opCalls,
                 execs, logs, outFile, rtVars>>

NextClassify == ClassifyTree

SpecClassify == InitClassify /\ [][NextClassify]_vars

----------------------------------------------------------------------------
(* The export and its reload: ExportDiscoveredProjects, then LoadConfig of  *)
(* the written file, alone or as the projects section of a roller.yaml     *)
(* that has the required keys.                                             *)

ExportPaths == ForgePaths \cup { <<"null">> }
ExportRoles == { <<>>, <<"pom">>, <<"pip">>, <<"node">> }
ExportSpecs == {RepoSpec(p, r) : p \in ExportPaths, r \in ExportRoles}

\* the exported fragment put into a roller.yaml that has the required keys
WithRequiredKeys(fragment) ==
  LET base == ConfigDoc(<<"https", "://", "git.example.com">>, <<>>, Group) IN
    [k \in DOMAIN base \cup DOMAIN fragment |->
       IF k \in DOMAIN fragment THEN fragment[k] ELSE base[k]]

InitRoundTrip ==
  /\ IdleMain
  /\ pc = "idle"
  /\ tree = {}
  /\ detected = Null
  /\ rtList \in SeqsUpTo(ExportSpecs, MaxExport)
  /\ rtFile = NoFile
  /\ rtLoaded = Null
  /\ rtPc = "export"

RtExport ==
  /\ rtPc = "export"
  /\ \E writeOK \in BOOLEAN :
       LET r == ExportDiscoveredProjects(rtList, writeOK) IN
         /\ rtFile' = r.file
         /\ rtPc' = IF r.err = "" THEN "exported" ELSE "export failed"
  /\ UNCHANGED <<mainVars, tree, detected, rtList, rtLoaded>>

RtReload ==
  /\ rtPc = "exported"
  /\ rtLoaded' = LoadConfig(rtFile)
  /\ rtPc' = "reloaded"
  /\ UNCHANGED <<mainVars, tree, detected, rtList, rtFile>>

RtReloadInConfig ==
  /\ rtPc = "exported"
  /\ rtLoaded' = LoadConfig(WithRequiredKeys(rtFile))
  /\ rtPc' = "reloaded in config"
  /\ UNCHANGED <<mainVars, tree, detected, rtList, rtFile>>

NextRoundTrip ==
  \/ RtExport
  \/ RtReload
  \/ RtReloadInConfig

SpecRoundTrip == InitRoundTrip /\ [][NextRoundTrip]_vars

----------------------------------------------------------------------------
(* Properties of the batch run *)

BatchLoopPcs == {"loop", "clone", "checkout", "detect", "ansible", "return", "done"}

InBatchLoop == ~discoverFlag /\ pc \in BatchLoopPcs

\* paths of the forge's non-archived projects, in the order of its answer
ListedPaths ==
  LET live == SelectSeq(apiResp.body, LAMBDA p : ~p.archived)
  IN [i \in 1..Len(live) |-> live[i].path_with_namespace]

\* paths of the projects roller.yaml lists, in its order
ConfiguredPaths == [i \in 1..Len(cfg.Projects) |-> cfg.Projects[i].RepoPath]

ExpectedBatchOrder == ConfiguredPaths \o ListedPaths

HasLine(m, repo) == \E i \in 1..Len(logs) : logs[i] = Line(m, repo)

CountLines(m) == Cardinality({i \in 1..Len(logs) : logs[i].msg = m})

\* C1: in a batch run the Clone/Branch Operator is invoked for the entries
\* of the merged list (static entries, then the discovered ones) one by one
\* in the list's order, and when the run is done it has been invoked exactly
\* once per entry, whichever repositories failed.
C1_OncePerEntryInOrder ==
  InBatchLoop =>
    /\ ExpectedBatchOrder # <<>>
    /\ Len(opCalls) <= Len(ExpectedBatchOrder)
    /\ opCalls = SubSeq(ExpectedBatchOrder, 1, Len(opCalls))
    /\ (pc = "done" => opCalls = ExpectedBatchOrder)

\* a finished batch of one static and two discovered repositories in which
\* the second failed and the third was prepared
C1_Witness ==
  /\ ~discoverFlag
  /\ pc = "done"
  /\ Len(cfg.Projects) = 1
  /\ Len(opCalls) = 3
  /\ HasLine("Error processing", opCalls[2])
  /\ HasLine("Warning: Ansible playbook execution failed", opCalls[1])
  /\ HasLine("Successfully prepared", opCalls[3])

\* Number of repositories of a finished batch in which a step failed: the
\* log of one repository is either the driver's error line (clone or
\* checkout failed) or the three lines of classification, preparation and
\* automation.
RECURSIVE FailedRepos(_)
FailedRepos(l) ==
  IF l = <<>> THEN 0
  ELSE IF l[1].msg = "Error processing" THEN 1 + FailedRepos(Tail(l))
  ELSE (IF \/ l[1].msg = "Warning: Could not detect repository type"
           \/ l[3].msg = "Warning: Ansible playbook execution failed"
        THEN 1 ELSE 0)
       + FailedRepos(SubSeq(l, 4, Len(l)))

ReportedFailures == CountLines("Error processing")
ReportedSuccesses == Len(allProjects) - ReportedFailures

\* C2: a finished batch over n repositories of which f failed (at clone,
\* checkout, classification or automation) reports f failures and n-f
\* successes.
C2_ReportsEveryFailure ==
  (~discoverFlag /\ pc = "done") =>
    /\ ReportedFailures = FailedRepos(logs)
    /\ ReportedSuccesses = Len(allProjects) - FailedRepos(logs)

\* roller.yaml is complete but for the projects and the discovery group
NoProjectsNoGroup ==
  /\ rollerYaml \notin {NoFile, Garbage}
  /\ "projects" \notin DOMAIN rollerYaml
  /\ "auto_discover.group" \notin DOMAIN rollerYaml
  /\ "gitlab_url" \in DOMAIN rollerYaml
  /\ HasPrefix(rollerYaml["gitlab_url"].text, HttpsPrefix)
  /\ envToken # <<>>

\* C3: a batch run whose configuration has no static projects and no
\* discovery group ends with the no-projects error, with no directory
\* created and no clone run.
C3_EmptyListAbortsWithNoProjects ==
  (~discoverFlag /\ NoProjectsNoGroup /\ pc # "start") =>
    /\ pc = "fatal"
    /\ fatal = <<"No projects to process">>
    /\ dirs = {}
    /\ execs = <<>>

FetchFails == ~apiResp.transportOK \/ apiResp.status # 200

\* C4: in a batch run with a discovery group configured, once a failing
\* project fetch has been made the run has ended with the fatal fetch error,
\* with no directory created, no Clone/Branch Operator call and no clone.
C4_FetchFailureIsFatal ==
  (/\ ~discoverFlag
   /\ pc \notin {"start", "fetch"}
   /\ envToken # <<>>
   /\ cfg # Null
   /\ cfg.AutoDiscover.Group # <<>>
   /\ FetchFails) =>
    /\ pc = "fatal"
    /\ fatal[1] = "Failed to fetch projects from group"
    /\ dirs = {}
    /\ opCalls = <<>>
    /\ execs = <<>>

\* the fetch failed with an HTTP status other than 200 although roller.yaml
\* lists a static project
C4_Witness ==
  /\ ~discoverFlag
  /\ pc = "fatal"
  /\ cfg # Null
  /\ cfg.Projects # <<>>
  /\ apiResp.transportOK
  /\ apiResp.status = 500
  /\ fatal = <<"Failed to fetch projects from group", "GitLab API error">>

ArchivedCount == Cardinality({i \in 1..Len(apiResp.body) : apiResp.body[i].archived})

AsListed(repos) ==
  /\ apiResp.status = 200
  /\ Len(repos) = Len(apiResp.body) - ArchivedCount
  /\ [i \in 1..Len(repos) |-> repos[i].RepoPath] = ListedPaths
  /\ \A i \in 1..Len(repos) : repos[i].RoleName = <<>>

\* C5: right after a successful FetchGroupProjects, in the batch run and in
\* discovery mode, its result has one entry per non-archived project of the
\* HTTP-200 answer (N-K entries), in the answer's order, with the project's
\* path_with_namespace as path and an empty role.
C5_FetchDropsArchived ==
  /\ (pc = "merge" => AsListed(autoProjects))
  /\ (pc = "d_mktemp" => AsListed(allProjects))

\* the answer lists two projects, the first of them archived
C5_Witness ==
  /\ pc = "merge"
  /\ Len(apiResp.body) = 2
  /\ apiResp.body[1].archived
  /\ ~apiResp.body[2].archived
  /\ Len(autoProjects) = 1

----------------------------------------------------------------------------
(* Properties of the classifier *)

\* a regular file of that name lies in the tree outside any .git directory
PresentOutsideGit(n) ==
  \E e \in tree :
    /\ ~e.isDir
    /\ e.name = n
    /\ \A i \in 1..Len(e.dir) : e.dir[i] # ".git"

Scanned == pc = "classified" /\ detected.err # "error scanning repository"

\* the single role of the tree, with the given label for pom.xml
RoleByPriority(pomLabel) ==
  IF PresentOutsideGit("pom.xml") THEN detected = [role |-> pomLabel, err |-> ""]
  ELSE IF PresentOutsideGit("requirements.txt")
       THEN detected = [role |-> <<"pip">>, err |-> ""]
  ELSE IF PresentOutsideGit("package.json")
       THEN detected = [role |-> <<"node">>, err |-> ""]
  ELSE detected = [role |-> <<>>, err |-> "no supported package manager found"]

\* C6, as claimed: a scanned tree is classified maven if pom.xml is present
\* outside the .git directory, otherwise pip if requirements.txt is,
\* otherwise node if package.json is, otherwise it is unsupported.
C6_RoleIsMaven == Scanned => RoleByPriority(<<"maven">>)

\* C6, amended: the same priority rule, with the role label pom (not
\* maven) for a tree that has pom.xml.
C6_RoleIsPom == Scanned => RoleByPriority(<<"pom">>)

\* a tree with both pom.xml and package.json was classified pom
C6_Witness ==
  /\ Scanned
  /\ PresentOutsideGit("pom.xml")
  /\ PresentOutsideGit("package.json")
  /\ detected.role = <<"pom">>

----------------------------------------------------------------------------
(* Properties of discovery mode *)

\* paths of the entries of the written export file, in its order
ExportedPaths ==
  [i \in 1..Len(outFile["projects"]) |-> yamlDecode(outFile["projects"][i].path)]

\* paths of the repositories that were cloned and classified, in log order
DetectedPaths ==
  LET d == SelectSeq(logs, LAMBDA l : l.msg = "Detected role")
  IN [i \in 1..Len(d) |-> d[i].repo]

\* C7: after a successful discovery run the export file lists exactly the
\* repositories that were cloned and classified successfully.
C7_FailedReposNotExported ==
  (discoverFlag /\ pc = "done") => ExportedPaths = DetectedPaths

\* discoverAndExportProjects got past its loop
LoopOver ==
  \/ pc = "done"
  \/ pc = "fatal" /\ Len(fatal) = 3 /\ fatal[2] = "failed to export projects"

\* C8: a discovery run in which no repository was cloned and classified
\* successfully ends with the no-projects error and writes no export file.
C8_NothingExportableFails ==
  (discoverFlag /\ LoopOver /\ DetectedPaths = <<>>) =>
    /\ pc = "fatal"
    /\ fatal = <<"Discovery failed", "failed to export projects", "no projects to export">>
    /\ outFile = NoFile

----------------------------------------------------------------------------
(* Properties of the export round trip *)

\* C9, as claimed: LoadConfig of the file ExportDiscoveredProjects wrote
\* succeeds and its projects are the exported list.
C9_ReloadOfExportSucceeds ==
  rtPc = "reloaded" => (rtLoaded.err = "" /\ rtLoaded.cfg.Projects = rtList)

\* C9, amended: LoadConfig of the exported projects section inside a
\* roller.yaml that has the required keys succeeds and its projects are the
\* exported list, pair by pair in order; LoadConfig of the written file on
\* its own is rejected by the validation.
C9_RoundTripInConfig ==
  /\ rtPc = "reloaded in config" =>
       (rtLoaded.err = "" /\ rtLoaded.cfg.Projects = rtList)
  /\ rtPc = "reloaded" => rtLoaded.err = "invalid configuration"

\* a list of two, with an empty role and a path that YAML must quote
C9_Witness ==
  /\ rtPc = "reloaded in config"
  /\ Len(rtList) = 2
  /\ rtList[1].RoleName = <<>>
  /\ rtList[2].RepoPath = <<"null">>
  /\ rtList[2].RoleName = <<"node">>
  /\ rtLoaded.cfg.Projects = rtList

----------------------------------------------------------------------------
(* Properties of the clone URL *)

Segments(p) == SelectSeq(p, LAMBDA t : t # "/")

RECURSIVE SlashJoined(_)
SlashJoined(segs) ==
  IF segs = <<>> THEN <<>> ELSE <<"/", segs[1]>> \o SlashJoined(Tail(segs))

\* <scheme>://oauth2:t@<host>/<base path joined with p>.git
ClaimedCloneURL(base, t, p) ==
  LET hasScheme == Len(base) >= 2 /\ base[2] = "://"
      scheme == IF hasScheme THEN base[1] ELSE "https"
      rest == IF hasScheme THEN SubSeq(base, 3, Len(base)) ELSE base
  IN <<scheme, "://", "oauth2", ":">> \o t \o <<"@", rest[1]>>
     \o SlashJoined(Segments(Tail(rest)) \o Segments(p)) \o <<".git">>

\* C10: every git clone the tool runs, in the batch run and in discovery
\* mode, is given the URL <scheme>://oauth2:t@<host>/<base path joined with
\* p>.git for the configured base URL, the token t and the repository path p.
C10_EveryCloneUsesTokenURL ==
  \A i \in 1..Len(execs) :
    execs[i].cmd = "git clone" =>
      execs[i].url = ClaimedCloneURL(cfg.GitlabURL, envToken, execs[i].repo)

----------------------------------------------------------------------------
(* Properties of one repository's processing *)

\* the step just taken started that command for the repository in progress
Started(c) ==
  /\ Len(execs') = Len(execs) + 1
  /\ execs'[Len(execs')].cmd = c
  /\ execs'[Len(execs')].repo = allProjects[idx].RepoPath

\* the last command started so far is that command for the repository in progress
LastStarted(c) ==
  /\ execs # <<>>
  /\ execs[Len(execs)].cmd = c
  /\ execs[Len(execs)].repo = allProjects[idx].RepoPath

\* the step just taken is the classification: its two log lines were written
Classified == Len(logs') = Len(logs) + 2

StepsInOrder ==
  ~discoverFlag =>
    \* clone comes first, within a call of cloneAndCreateBranch
    /\ Started("git clone") =>
         /\ Len(opCalls) = idx
         /\ opCalls[idx] = allProjects[idx].RepoPath
         /\ ret = ""
    \* a clone that made no directory failed: the call returns an error
    /\ (Started("git clone") /\ dirs' = dirs) => (ret' # "" /\ pc' = "return")
    \* checkout follows the clone, and fails once the context has expired
    /\ Started("git checkout") => (LastStarted("git clone") /\ ret = "")
    /\ (Started("git checkout") /\ ctx = "expired") => (ret' # "" /\ pc' = "return")
    \* classification follows the checkout
    /\ Classified => (LastStarted("git checkout") /\ ret = "")
    \* automation follows the classification
    /\ Started("ansible-playbook") =>
         /\ LastStarted("git checkout")
         /\ logs # <<>>
         /\ logs[Len(logs)] = Line("Successfully prepared", allProjects[idx].RepoPath)
    \* once an error is being returned no later step runs for the repository
    /\ ret # "" =>
         /\ pc = "return"
         /\ execs' = execs
         /\ detected' = detected
         /\ logs' = Append(logs, Line("Error processing", allProjects[idx].RepoPath))
         /\ idx' = idx + 1

\* C11: in the batch run the steps of one repository run in the order
\* clone, checkout, classify, automation; a failed clone or checkout makes
\* cloneAndCreateBranch return an error, and from then on none of the later
\* steps runs for that repository: the next thing that happens is the
\* driver's error line and the move to the next repository.
C11_StepsInOrderAbortOnFailure == [][StepsInOrder]_vars

\* the second repository's checkout failed after the first one went
\* through all four steps
C11_Witness ==
  /\ ~discoverFlag
  /\ pc = "return"
  /\ idx = 2
  /\ ret = "git checkout -b failed"
  /\ Len(execs) = 5
  /\ execs[3].cmd = "ansible-playbook"
  /\ LastStarted("git checkout")

----------------------------------------------------------------------------
(* Properties of the driver's error handling *)

\* the lines cloneAndCreateBranch writes when classification or automation fails
StepWarnings ==
  { "Warning: Could not detect repository type",
    "Warning: Ansible playbook execution failed" }

\* C12: in the batch run, once the driver is done with a repository, every
\* failure of one of its steps, classification and automation included, has
\* reached the driver as an error: the failure's line is followed by the
\* driver's error line for that repository.
C12_EveryStepErrorReachesDriver ==
  (~discoverFlag /\ pc \in {"loop", "done"}) =>
    \A i \in 1..Len(logs) :
      logs[i].msg \in StepWarnings =>
        \E j \in (i + 1)..Len(logs) :
          logs[j] = Line("Error processing", logs[i].repo)

----------------------------------------------------------------------------
(* Properties of the per-repository timeout *)

\* C13: in the batch run a repository whose timeout expired during one of
\* its steps (clone, checkout, classification or automation) comes back to
\* the driver as a failed repository, and no timeout, expired or not, is
\* carried over to the next repository: each one starts with its own.
C13_ExpiryIsARepositoryFailure ==
  ~discoverFlag =>
    /\ (pc = "return" /\ ctx = "expired") => ret # ""
    /\ pc \in {"loop", "done"} => ctx = "none"
    /\ pc = "clone" => (ctx \in {"live", "expired"} /\ ret = "")

----------------------------------------------------------------------------
(* Properties of the scratch directory *)

ScratchDir == <<"repos", "/", "temp">>

\* the scratch clones on disk
ScratchClones == {d \in dirs : HasPrefix(d, ScratchDir) /\ d # ScratchDir}

\* the scratch clones made so far: the clones run less those that failed
ClonesMade == Len(execs) - CountLines("Warning: Failed to clone")

\* C14: in discovery mode, while the loop over the discovered projects runs
\* the scratch directory exists and holds every scratch clone made so far
\* (none is removed between repositories), and when
\* discoverAndExportProjects has returned, with success or with any error,
\* neither the scratch directory nor a scratch clone is left.
C14_ScratchKeptThenRemoved ==
  discoverFlag =>
    /\ pc \in {"d_clone", "d_detect"} =>
         /\ ScratchDir \in dirs
         /\ Cardinality(ScratchClones) = ClonesMade
    /\ pc \in {"done", "fatal"} =>
         /\ ScratchDir \notin dirs
         /\ ScratchClones = {}

\* two scratch clones were made, the export could not be written, and the
\* scratch directory is gone
C14_Witness ==
  /\ discoverFlag
  /\ pc = "fatal"
  /\ fatal = <<"Discovery failed", "failed to export projects",
               "failed to write projects file">>
  /\ Len(execs) = 2
  /\ CountLines("Detected role") = 2
  /\ ScratchDir \notin dirs

====
